---- MODULE Spec2Model ----
(***************************************************************************)
(* A model of the BeERS manager: the HTTP handlers of                      *)
(* beers/manager/service.py over the peewee tables of manager/beer_db.py   *)
(* and the Docker swarm engine they call (nodes, services, configs).       *)
(*                                                                         *)
(* Every handler is one action: it runs from its permission check to its   *)
(* return (or to the exception that ends it) without interleaving.  The    *)
(* variable `answer` is the response of the request handled last.          *)
(*                                                                         *)
(* Not modelled: volume mounts (passed through verbatim to the engine),    *)
(* the image name (one value), and the NOT NULL column constraints of      *)
(* Worker.node_id / Worker.local_nfs_root, which Worker.register never     *)
(* writes (the schema of the running revision is not part of the sources). *)
(***************************************************************************)
EXTENDS Integers, Sequences, FiniteSets, TLC

VARIABLES
    users,      \* table User:   user id -> row, or NoUser
    workers,    \* table Worker: hostname -> row, or NoWorker
    gpus,       \* table GPU:    set of rows (worker, uuid, index)
    jobs,       \* table Job:    set of rows, primary key `service`
    nodes,      \* engine: swarm nodes, hostname -> node, or NoNode
    services,   \* engine: live services (placements)
    configs,    \* engine: configs, user id -> stored key, or NULL
    next_id,    \* engine: the id the next created service gets
    now,        \* wall clock, in seconds
    nreq,       \* number of requests handled so far
    answer,     \* the response to the last request
    bound       \* history: hostname -> the swarm id of the node its worker first
                \* registered as, or NULL (the code keeps no such record)

vars == <<users, workers, gpus, jobs, nodes, services, configs, next_id, now, nreq, answer, bound>>

-----------------------------------------------------------------------------
(* Bounds of the model *)

MaxRequests == 4       \* directory requests handled in one behaviour
MaxJobRequests == 4    \* requests handled in one behaviour of the job lifecycle
MaxTime == 1           \* last clock value
MaxWorkerRequests == 3 \* join requests handled in one behaviour of the worker registry
MaxKeyRequests == 4    \* requests handled in one behaviour of the key rotation
MaxRemoveRequests == 5 \* requests handled in one behaviour of the job removal
MaxListRequests == 7   \* requests handled in one behaviour of the job listing
MaxRestartRequests == 4 \* requests handled in one behaviour of the restarts
MaxExpiryRequests == 5 \* requests handled in one behaviour of the expiry
MaxHours == 3          \* last clock value of the expiry, in hours
MaxStorageRequests == 4 \* requests handled in one behaviour of the storage preparation

-----------------------------------------------------------------------------
(* Values *)

NULL == "NULL"

\* the empty `data` of an answer
NoData == <<>>

\* api.py, class PermissionLevel
OWNER == 0
ADMIN == 1
USER == 2
PermissionLevel == <<OWNER, ADMIN, USER>>

\* api.py, class ReturnCodes (the ones the manager returns)
DB_ERROR == "DB_ERROR"
PERMISSION_ERROR == "PERMISSION_ERROR"
ALREADY_REGISTERED_ERROR == "ALREADY_REGISTERED_ERROR"
NOT_REGISTERED_ERROR == "NOT_REGISTERED_ERROR"
KEY_MISSING_ERROR == "KEY_MISSING_ERROR"
KEY_IN_USE_ERROR == "KEY_IN_USE_ERROR"
DOCKER_ERROR == "DOCKER_ERROR"
WORKER_INFO == "WORKER_INFO"
REGISTRATION_SUCCESSFUL == "REGISTRATION_SUCCESSFUL"
DISPATCH_OK == "DISPATCH_OK"
RESOURCES == "RESOURCES"
SET_KEY_SUCCESSFUL == "SET_KEY_SUCCESSFUL"
KEY_CHECK == "KEY_CHECK"
JOB_LIST == "JOB_LIST"
JOB_REMOVE_OK == "JOB_REMOVE_OK"
\* an exception no handler catches: the framework answers HTTP 500
UNHANDLED == "UNHANDLED_EXCEPTION"

\* the owner id the manager is started with, and the ids requests may carry
OwnerId == "o"
UserIds == {"o", "u1", "u2"}
\* identity claims of a request: the chat username is optional
Usernames == {NULL, "ann"}
FullNames == {"F"}
RequestUsers == [user_id : UserIds, username : Usernames, full_name : FullNames]
SshKeys == {"k1", "k2"}

-----------------------------------------------------------------------------
(* Table User *)

NoUser == [exists |-> FALSE]

\* a row as INSERT writes it: every column not given takes its default
UserDefaults(level) ==
    [exists |-> TRUE, permission_level |-> level, username |-> NULL,
     full_name |-> NULL, public_ssh_key |-> NULL]

User_is_registered(us, user_id) == us[user_id].exists

User_permission_check(us, user_id, required_level) ==
    us[user_id].exists /\ us[user_id].permission_level <= required_level

\* REPLACE INTO user (id, permission_level): a row with this id is deleted and
\* the new row is inserted, its other columns at their defaults
User_register(us, user_id, level) ==
    [us EXCEPT ![user_id] = UserDefaults(level)]

\* a variant that writes the row whether or not it exists (an upsert)
User_update_details_Upsert(us, user_id, username, full_name) ==
    [raised |-> FALSE,
     users |-> [us EXCEPT ![user_id] =
                    [exists |-> TRUE,
                     permission_level |-> IF us[user_id].exists
                                          THEN us[user_id].permission_level ELSE USER,
                     username |-> username, full_name |-> full_name,
                     public_ssh_key |-> IF us[user_id].exists
                                        THEN us[user_id].public_ssh_key ELSE NULL]]]

\* username is UNIQUE (NULLs do not collide): an UPDATE that would break it
\* raises IntegrityError and changes nothing
User_update_details(us, user_id, username, full_name) ==
    IF ~us[user_id].exists
    THEN [raised |-> FALSE, users |-> us]
    ELSE IF username # NULL
            /\ \E v \in UserIds \ {user_id} : us[v].exists /\ us[v].username = username
    THEN [raised |-> TRUE, users |-> us]
    ELSE [raised |-> FALSE,
          users |-> [us EXCEPT ![user_id].username = username,
                               ![user_id].full_name = full_name]]

User_having_permission(us, level) ==
    {u \in UserIds : us[u].exists /\ us[u].permission_level <= level}

\* beer_db.init: the tables are created if missing, the owner is registered
db_init(us, owner_id) == User_register(us, owner_id, OWNER)

-----------------------------------------------------------------------------
(* api.py *)

Max(a, b) == IF a >= b THEN a ELSE b

IndexOf(level) == CHOOSE i \in 1..Len(PermissionLevel) : PermissionLevel[i] = level

\* list(PermissionLevel)[max(0, index - 1)], with the 1-based indices of a sequence
higher_permission(level) == PermissionLevel[Max(1, IndexOf(level) - 1)]

-----------------------------------------------------------------------------
(* service.py: permission_check *)

\* The usernames the NOT_REGISTERED answer lists: "- @username" for every user of
\* level ADMIN or above whose username is not None
AdminLines(us) ==
    {us[u].username : u \in {a \in User_having_permission(us, ADMIN) : us[a].username # NULL}}

\* code = NULL is the `None` the function returns when the check passes
permission_check(us, request_user, required_level) ==
    LET upd == User_update_details(us, request_user.user_id,
                                   request_user.username, request_user.full_name)
    IN  IF upd.raised
        THEN [code |-> UNHANDLED, users |-> us, data |-> NoData]
        ELSE IF required_level = USER /\ ~User_is_registered(upd.users, request_user.user_id)
        THEN [code |-> NOT_REGISTERED_ERROR, users |-> upd.users,
              data |-> [admins |-> AdminLines(upd.users)]]
        ELSE IF ~User_permission_check(upd.users, request_user.user_id, required_level)
        THEN [code |-> PERMISSION_ERROR, users |-> upd.users, data |-> NoData]
        ELSE [code |-> NULL, users |-> upd.users, data |-> NoData]

-----------------------------------------------------------------------------
(* Workers, GPUs and what a worker announces *)

Hostnames == {"w1", "w2"}
Ips == {"ip1", "ip2"}
NfsRoot == "/nfs"

\* GPU uuids are strings: sequences of characters
GA == <<"a">>
GB == <<"b">>
GC == <<"c">>

\* worker_utils.build_worker_specs: what a joining worker sends
WorkerModels ==
    { [hostname |-> "w1", gpus |-> <<[uuid |-> GA, index |-> 0], [uuid |-> GB, index |-> 1]>>,
       local_nfs_root |-> NULL],
      [hostname |-> "w1", gpus |-> <<[uuid |-> GA, index |-> 0], [uuid |-> GC, index |-> 1]>>,
       local_nfs_root |-> NfsRoot],
      [hostname |-> "w1", gpus |-> <<[uuid |-> GB, index |-> 0]>>,
       local_nfs_root |-> NULL] }

NoWorker == [exists |-> FALSE]

\* a variant that creates the row without looking for one of this uuid
GPU_register_AlwaysCreate(gs, gpu_model, worker_id) ==
    [raised |-> FALSE,
     gpus |-> gs \cup {[worker |-> worker_id, uuid |-> gpu_model.uuid,
                        index |-> gpu_model.index]}]

\* a variant of a table without the unique index on (worker, index)
GPU_register_NoIndex(gs, gpu_model, worker_id) ==
    IF \E g \in gs : g.worker = worker_id /\ g.uuid = gpu_model.uuid
    THEN [raised |-> FALSE, gpus |-> gs]
    ELSE [raised |-> FALSE,
          gpus |-> gs \cup {[worker |-> worker_id, uuid |-> gpu_model.uuid,
                             index |-> gpu_model.index]}]

\* GPU.register: a row of this worker with this uuid is left as it is; otherwise a
\* row is created, and the unique index on (worker, index) raises IntegrityError
GPU_register(gs, gpu_model, worker_id) ==
    IF \E g \in gs : g.worker = worker_id /\ g.uuid = gpu_model.uuid
    THEN [raised |-> FALSE, gpus |-> gs]
    ELSE IF \E g \in gs : g.worker = worker_id /\ g.index = gpu_model.index
    THEN [raised |-> TRUE, gpus |-> gs]
    ELSE [raised |-> FALSE,
          gpus |-> gs \cup {[worker |-> worker_id, uuid |-> gpu_model.uuid,
                             index |-> gpu_model.index]}]

\* the loop `for gpu in worker_model.gpus`: every statement commits on its own,
\* so the rows written before an exception stay
RECURSIVE RegisterGpus(_, _, _)
RegisterGpus(gs, gpu_models, worker_id) ==
    IF gpu_models = <<>>
    THEN [raised |-> FALSE, gpus |-> gs]
    ELSE LET r == GPU_register(gs, Head(gpu_models), worker_id)
         IN  IF r.raised THEN r ELSE RegisterGpus(r.gpus, Tail(gpu_models), worker_id)

\* Worker.register: the row of this hostname is updated in place or created
Worker_register(ws, gs, worker_model, ip) ==
    LET h == worker_model.hostname
        row == [exists |-> TRUE, ip |-> ip, local_nfs_root |-> worker_model.local_nfs_root]
        r == RegisterGpus(gs, worker_model.gpus, h)
    IN  [raised |-> r.raised, workers |-> [ws EXCEPT ![h] = row], gpus |-> r.gpus]

\* GPU.by_workers: the GPU rows of the given workers, grouped by worker.  The
\* select walks the primary-key index (worker, uuid), so the rows of one worker
\* are adjacent and itertools.groupby yields one group per worker
GPU_by_workers(gs, worker_ids) ==
    LET rows == {g \in gs : g.worker \in worker_ids}
    IN  [h \in {g.worker : g \in rows} |-> {g \in rows : g.worker = h}]

-----------------------------------------------------------------------------
(* The engine: nodes, services, configs *)

NoNode == [exists |-> FALSE]
\* the ids the engine gives the nodes that join
NodeIds == {"n1", "n2"}
Online(id) ==
    [exists |-> TRUE, id |-> id, state |-> "ready", availability |-> "active",
     nfs_label |-> NULL]
NodeStatuses == {<<"ready", "active">>, <<"down", "active">>, <<"ready", "drain">>}

SEP == "#"

\* _SERVICE_LABEL_GPU_SEP.join(uuids)
RECURSIVE Join(_)
Join(uuids) ==
    IF uuids = <<>> THEN <<>>
    ELSE IF Len(uuids) = 1 THEN Head(uuids)
    ELSE Head(uuids) \o <<SEP>> \o Join(Tail(uuids))

\* label.split(_SERVICE_LABEL_GPU_SEP): never empty, "" splits into [""]
RECURSIVE SplitFrom(_, _)
SplitFrom(label, cur) ==
    IF label = <<>> THEN <<cur>>
    ELSE IF Head(label) = SEP THEN <<cur>> \o SplitFrom(Tail(label), <<>>)
    ELSE SplitFrom(Tail(label), Append(cur, Head(label)))

Split(label) == SplitFrom(label, <<>>)

Range(f) == {f[i] : i \in DOMAIN f}

\* a variant that reads only the first uuid of every label
busy_gpus_FirstOnly(svcs) == {Head(Split(s.gpus_label)) : s \in svcs}

\* list_resources, lines 387-392: the uuids on the labels of the live services
busy_gpus(svcs) == UNION {Range(Split(s.gpus_label)) : s \in svcs}

\* a variant that takes every node that is ready, drained or not
online_workers_AnyAvailability(nds) ==
    {h \in Hostnames : nds[h].exists /\ nds[h].state = "ready"}

\* list_resources, lines 378-385
online_workers(nds) ==
    {h \in Hostnames : nds[h].exists /\ nds[h].state = "ready" /\ nds[h].availability = "active"}

\* list_resources, lines 394-395: hostname -> the uuids of its GPUs that are not busy
available_resources(nds, gs, svcs) ==
    LET resources == GPU_by_workers(gs, online_workers(nds))
    IN  [h \in DOMAIN resources |->
            {g.uuid : g \in {x \in resources[h] : x.uuid \notin busy_gpus(svcs)}}]

\* a variant for which no config is ever in use
config_in_use_Never(svcs, user_id) == FALSE

\* a config is in use while a service references it
config_in_use(svcs, user_id) == \E s \in svcs : s.config = user_id

-----------------------------------------------------------------------------
(* Requests *)

Durations == {2}
GpuLists == {<<>>, <<GA>>, <<GA, GB>>}
\* models.JobRequestModel (the image and the mounts left out)
JobRequests ==
    [user_id : UserIds, worker_hostname : Hostnames, expected_duration : Durations,
     gpus : GpuLists]

\* Job.end_time is NULL while the job runs
NoTime == -1
SecondsPerHour == 3600

\* an answer, with the endpoint and the acting user of the request it answers
Answer(op, user_id, code, data) == [op |-> op, user |-> user_id, code |-> code, data |-> data]

NoJob == [exists |-> FALSE]
JobRow(js, job_id) ==
    IF \E j \in js : j.service = job_id THEN CHOOSE j \in js : j.service = job_id ELSE NoJob

-----------------------------------------------------------------------------
(* service.py: the handlers, each as the state and the answer it leaves *)

\* set_permission: `if not permission_check(...)` is true when the check returned
\* None (it passed) and false when it returned an error answer
set_permission_result(us, request_user, user_id, permission_level) ==
    LET pc == permission_check(us, request_user, higher_permission(permission_level))
    IN  IF pc.code = UNHANDLED
        THEN [users |-> us, code |-> UNHANDLED, data |-> NoData]
        ELSE IF pc.code = NULL
        THEN [users |-> pc.users, code |-> PERMISSION_ERROR, data |-> NoData]
        ELSE IF ~User_is_registered(pc.users, user_id)
        THEN [users |-> pc.users, code |-> NOT_REGISTERED_ERROR, data |-> [user_id |-> user_id]]
        ELSE [users |-> User_register(pc.users, user_id, permission_level),
              code |-> REGISTRATION_SUCCESSFUL, data |-> [user_id |-> user_id]]

\* register_user; run_ok is whether the helper container of _update_nfs_nodes runs
register_user_result(us, nds, request_user, user_id, run_ok) ==
    LET pc == permission_check(us, request_user, ADMIN)
        nfs_workers == {h \in Hostnames : nds[h].exists /\ nds[h].nfs_label # NULL}
    IN  IF pc.code # NULL
        THEN [users |-> pc.users, code |-> pc.code, data |-> pc.data]
        ELSE IF User_is_registered(pc.users, user_id)
        THEN [users |-> pc.users, code |-> ALREADY_REGISTERED_ERROR, data |-> [user_id |-> user_id]]
        ELSE IF nfs_workers # {} /\ ~run_ok
        THEN [users |-> User_register(pc.users, user_id, USER), code |-> DB_ERROR, data |-> NoData]
        ELSE [users |-> User_register(pc.users, user_id, USER),
              code |-> REGISTRATION_SUCCESSFUL, data |-> [user_id |-> user_id]]

\* set_ssh_key; create_ok is whether configs.create succeeds
set_ssh_key_result(us, cfgs, svcs, request_user, ssh_key, create_ok) ==
    LET pc == permission_check(us, request_user, USER)
        uid == request_user.user_id
    IN  IF pc.code # NULL
        THEN [users |-> pc.users, configs |-> cfgs, code |-> pc.code, data |-> pc.data]
        ELSE IF cfgs[uid] # NULL /\ config_in_use(svcs, uid)
        THEN [users |-> pc.users, configs |-> cfgs, code |-> KEY_IN_USE_ERROR, data |-> NoData]
        ELSE IF ~create_ok
        THEN [users |-> pc.users, configs |-> [cfgs EXCEPT ![uid] = NULL],
              code |-> UNHANDLED, data |-> NoData]
        ELSE IF \E v \in UserIds \ {uid} : pc.users[v].exists /\ pc.users[v].public_ssh_key = ssh_key
        THEN [users |-> pc.users, configs |-> [cfgs EXCEPT ![uid] = ssh_key],
              code |-> UNHANDLED, data |-> NoData]
        ELSE [users |-> [pc.users EXCEPT ![uid].public_ssh_key = ssh_key],
              configs |-> [cfgs EXCEPT ![uid] = ssh_key],
              code |-> SET_KEY_SUCCESSFUL, data |-> NoData]

\* check_ssh_key
check_ssh_key_result(us, request_user) ==
    LET pc == permission_check(us, request_user, USER)
    IN  IF pc.code # NULL
        THEN [users |-> pc.users, code |-> pc.code, data |-> pc.data]
        ELSE [users |-> pc.users, code |-> KEY_CHECK,
              data |-> [is_set |-> pc.users[request_user.user_id].public_ssh_key # NULL]]

\* a variant that trusts the key on the row and does not look the config up
job_add_checks_TrustsRow(us, ws, cfgs, request_user, job) ==
    LET pc == permission_check(us, request_user, USER)
    IN  IF pc.code # NULL
        THEN [users |-> pc.users, code |-> pc.code, data |-> pc.data]
        ELSE IF ~ws[job.worker_hostname].exists \/ ~pc.users[job.user_id].exists
        THEN [users |-> pc.users, code |-> UNHANDLED, data |-> NoData]
        ELSE IF pc.users[job.user_id].public_ssh_key = NULL
        THEN [users |-> pc.users, code |-> KEY_MISSING_ERROR, data |-> NoData]
        ELSE [users |-> pc.users, code |-> NULL, data |-> NoData]

\* a variant that goes on to the placement whatever the permission check answered
job_add_checks_Unchecked(us, ws, cfgs, request_user, job) ==
    IF ~ws[job.worker_hostname].exists \/ ~us[job.user_id].exists
    THEN [users |-> us, code |-> UNHANDLED, data |-> NoData]
    ELSE IF us[job.user_id].public_ssh_key = NULL \/ cfgs[job.user_id] = NULL
    THEN [users |-> us, code |-> KEY_MISSING_ERROR, data |-> NoData]
    ELSE [users |-> us, code |-> NULL, data |-> NoData]

\* a variant that does not look the target worker up
job_add_checks_AnyWorker(us, ws, cfgs, request_user, job) ==
    LET pc == permission_check(us, request_user, USER)
    IN  IF pc.code # NULL
        THEN [users |-> pc.users, code |-> pc.code, data |-> pc.data]
        ELSE IF ~pc.users[job.user_id].exists
        THEN [users |-> pc.users, code |-> UNHANDLED, data |-> NoData]
        ELSE IF pc.users[job.user_id].public_ssh_key = NULL
        THEN [users |-> pc.users, code |-> KEY_MISSING_ERROR, data |-> NoData]
        ELSE IF cfgs[job.user_id] = NULL
        THEN [users |-> pc.users, code |-> KEY_MISSING_ERROR, data |-> NoData]
        ELSE [users |-> pc.users, code |-> NULL, data |-> NoData]

\* job_add, lines 267-284: the checks before the placement is requested
job_add_checks(us, ws, cfgs, request_user, job) ==
    LET pc == permission_check(us, request_user, USER)
    IN  IF pc.code # NULL
        THEN [users |-> pc.users, code |-> pc.code, data |-> pc.data]
        ELSE IF ~ws[job.worker_hostname].exists \/ ~pc.users[job.user_id].exists
        THEN [users |-> pc.users, code |-> UNHANDLED, data |-> NoData]
        ELSE IF pc.users[job.user_id].public_ssh_key = NULL
        THEN [users |-> pc.users, code |-> KEY_MISSING_ERROR, data |-> NoData]
        ELSE IF cfgs[job.user_id] = NULL
        THEN [users |-> pc.users, code |-> KEY_MISSING_ERROR, data |-> NoData]
        ELSE [users |-> pc.users, code |-> NULL, data |-> NoData]

\* a variant that writes the Job row before it knows the placement was created
job_add_dispatch_RowFirst(js, svcs, id, t, job, create_ok) ==
    LET job_name == <<job.user_id, t>>
        service == [id |-> id, name |-> job_name, user_id |-> job.user_id,
                    gpus_label |-> Join(job.gpus), hostname |-> job.worker_hostname,
                    env |-> Range(job.gpus), config |-> job.user_id]
        row == [exists |-> TRUE, service |-> id, name |-> job_name, user |-> job.user_id,
                worker_hostname |-> job.worker_hostname, start_time |-> t,
                expected_end_time |-> t + job.expected_duration * SecondsPerHour,
                end_time |-> NoTime, gpu |-> IF job.gpus = <<>> THEN NULL ELSE job.gpus[1]]
    IN  IF ~create_ok \/ \E s \in svcs : s.name = job_name
        THEN [jobs |-> js \cup {row}, services |-> svcs, next_id |-> id, code |-> UNHANDLED]
        ELSE [jobs |-> js \cup {row}, services |-> svcs \cup {service}, next_id |-> id + 1,
              code |-> DISPATCH_OK]

\* a variant that swallows the engine's error and answers as if the job ran
job_add_dispatch_Swallow(js, svcs, id, t, job, create_ok) ==
    LET job_name == <<job.user_id, t>>
        service == [id |-> id, name |-> job_name, user_id |-> job.user_id,
                    gpus_label |-> Join(job.gpus), hostname |-> job.worker_hostname,
                    env |-> Range(job.gpus), config |-> job.user_id]
    IN  IF ~create_ok \/ \E s \in svcs : s.name = job_name
        THEN [jobs |-> js, services |-> svcs, next_id |-> id, code |-> DISPATCH_OK]
        ELSE IF job.gpus = <<>>
        THEN [jobs |-> js, services |-> svcs \cup {service}, next_id |-> id + 1,
              code |-> UNHANDLED]
        ELSE [jobs |-> js \cup {[exists |-> TRUE, service |-> id, name |-> job_name,
                                 user |-> job.user_id,
                                 worker_hostname |-> job.worker_hostname,
                                 start_time |-> t,
                                 expected_end_time |-> t + job.expected_duration * SecondsPerHour,
                                 end_time |-> NoTime, gpu |-> job.gpus[1]]},
              services |-> svcs \cup {service}, next_id |-> id + 1, code |-> DISPATCH_OK]

\* job_add, lines 286-339: services.create, then Job.create.  The engine refuses a
\* second service of the same name; create_ok is whether it accepts this one
job_add_dispatch(js, svcs, id, t, job, create_ok) ==
    LET job_name == <<job.user_id, t>>
        service == [id |-> id, name |-> job_name, user_id |-> job.user_id,
                    gpus_label |-> Join(job.gpus), hostname |-> job.worker_hostname,
                    env |-> Range(job.gpus), config |-> job.user_id]
    IN  IF ~create_ok \/ \E s \in svcs : s.name = job_name
        THEN [jobs |-> js, services |-> svcs, next_id |-> id, code |-> UNHANDLED]
        ELSE IF job.gpus = <<>>
        THEN [jobs |-> js, services |-> svcs \cup {service}, next_id |-> id + 1,
              code |-> UNHANDLED]
        ELSE [jobs |-> js \cup {[exists |-> TRUE, service |-> id, name |-> job_name,
                                 user |-> job.user_id,
                                 worker_hostname |-> job.worker_hostname,
                                 start_time |-> t,
                                 expected_end_time |-> t + job.expected_duration * SecondsPerHour,
                                 end_time |-> NoTime, gpu |-> job.gpus[1]]},
              services |-> svcs \cup {service}, next_id |-> id + 1, code |-> DISPATCH_OK]

\* a variant that stamps end_time before it asks the engine to remove the service
job_remove_result_StampFirst(us, js, svcs, t, request_user, job_id, remove_ok) ==
    LET pc == permission_check(us, request_user, USER)
        user == pc.users[request_user.user_id]
        job == JobRow(js, job_id)
        stamped == (js \ {job}) \cup {[job EXCEPT !.end_time = t]}
    IN  IF pc.code # NULL
        THEN [users |-> pc.users, jobs |-> js, services |-> svcs, code |-> pc.code, data |-> pc.data]
        ELSE IF ~job.exists
        THEN [users |-> pc.users, jobs |-> js, services |-> svcs, code |-> UNHANDLED, data |-> NoData]
        ELSE IF job.user = request_user.user_id \/ user.permission_level <= ADMIN
        THEN IF ~remove_ok \/ ~\E s \in svcs : s.id = job.service
             THEN [users |-> pc.users, jobs |-> stamped, services |-> svcs,
                   code |-> UNHANDLED, data |-> NoData]
             ELSE [users |-> pc.users, jobs |-> stamped,
                   services |-> {s \in svcs : s.id # job.service},
                   code |-> JOB_REMOVE_OK, data |-> NoData]
        ELSE [users |-> pc.users, jobs |-> js, services |-> svcs,
              code |-> PERMISSION_ERROR, data |-> NoData]

\* a variant that lets every registered user remove every job
job_remove_result_AnyUser(us, js, svcs, t, request_user, job_id, remove_ok) ==
    LET pc == permission_check(us, request_user, USER)
        job == JobRow(js, job_id)
    IN  IF pc.code # NULL
        THEN [users |-> pc.users, jobs |-> js, services |-> svcs, code |-> pc.code, data |-> pc.data]
        ELSE IF ~job.exists \/ ~remove_ok \/ ~\E s \in svcs : s.id = job.service
        THEN [users |-> pc.users, jobs |-> js, services |-> svcs, code |-> UNHANDLED, data |-> NoData]
        ELSE [users |-> pc.users,
              jobs |-> (js \ {job}) \cup {[job EXCEPT !.end_time = t]},
              services |-> {s \in svcs : s.id # job.service},
              code |-> JOB_REMOVE_OK, data |-> NoData]

\* a variant that ends the Job row and leaves the service running
job_remove_result_KeepService(us, js, svcs, t, request_user, job_id, remove_ok) ==
    LET pc == permission_check(us, request_user, USER)
        job == JobRow(js, job_id)
    IN  IF pc.code # NULL \/ ~job.exists \/ ~remove_ok
        THEN [users |-> pc.users, jobs |-> js, services |-> svcs, code |-> UNHANDLED, data |-> NoData]
        ELSE [users |-> pc.users,
              jobs |-> (js \ {job}) \cup {[job EXCEPT !.end_time = t]},
              services |-> svcs, code |-> JOB_REMOVE_OK, data |-> NoData]

\* a variant that stamps end_time again when the service is gone already
job_remove_result_Restamp(us, js, svcs, t, request_user, job_id, remove_ok) ==
    LET pc == permission_check(us, request_user, USER)
        user == pc.users[request_user.user_id]
        job == JobRow(js, job_id)
    IN  IF pc.code # NULL
        THEN [users |-> pc.users, jobs |-> js, services |-> svcs, code |-> pc.code, data |-> pc.data]
        ELSE IF ~job.exists
        THEN [users |-> pc.users, jobs |-> js, services |-> svcs, code |-> UNHANDLED, data |-> NoData]
        ELSE IF job.user = request_user.user_id \/ user.permission_level <= ADMIN
        THEN IF ~remove_ok
             THEN [users |-> pc.users, jobs |-> js, services |-> svcs,
                   code |-> UNHANDLED, data |-> NoData]
             ELSE [users |-> pc.users,
                   jobs |-> (js \ {job}) \cup {[job EXCEPT !.end_time = t]},
                   services |-> {s \in svcs : s.id # job.service},
                   code |-> JOB_REMOVE_OK, data |-> NoData]
        ELSE [users |-> pc.users, jobs |-> js, services |-> svcs,
              code |-> PERMISSION_ERROR, data |-> NoData]

\* job_remove; remove_ok is whether the engine removes the service
job_remove_result(us, js, svcs, t, request_user, job_id, remove_ok) ==
    LET pc == permission_check(us, request_user, USER)
        user == pc.users[request_user.user_id]
        job == JobRow(js, job_id)
    IN  IF pc.code # NULL
        THEN [users |-> pc.users, jobs |-> js, services |-> svcs, code |-> pc.code, data |-> pc.data]
        ELSE IF ~job.exists
        THEN [users |-> pc.users, jobs |-> js, services |-> svcs, code |-> UNHANDLED, data |-> NoData]
        ELSE IF job.user = request_user.user_id \/ user.permission_level <= ADMIN
        THEN IF ~remove_ok \/ ~\E s \in svcs : s.id = job.service
             THEN [users |-> pc.users, jobs |-> js, services |-> svcs,
                   code |-> UNHANDLED, data |-> NoData]
             ELSE [users |-> pc.users,
                   jobs |-> (js \ {job}) \cup {[job EXCEPT !.end_time = t]},
                   services |-> {s \in svcs : s.id # job.service},
                   code |-> JOB_REMOVE_OK, data |-> NoData]
        ELSE [users |-> pc.users, jobs |-> js, services |-> svcs,
              code |-> PERMISSION_ERROR, data |-> NoData]

\* a variant that lists every live service, whoever it is labelled with
job_list_result_Everyone(us, js, svcs, request_user) ==
    LET pc == permission_check(us, request_user, USER)
    IN  IF pc.code # NULL
        THEN [users |-> pc.users, code |-> pc.code, data |-> pc.data]
        ELSE IF \E s \in svcs : ~JobRow(js, s.id).exists
        THEN [users |-> pc.users, code |-> UNHANDLED, data |-> NoData]
        ELSE [users |-> pc.users, code |-> JOB_LIST,
              data |-> [services |-> {[service |-> s.id, job |-> JobRow(js, s.id)] : s \in svcs}]]

\* job_list: the live services labelled with the user's id, each with its Job row;
\* Job.get_by_id raises for a service that has no row
job_list_result(us, js, svcs, request_user) ==
    LET pc == permission_check(us, request_user, USER)
        mine == {s \in svcs : s.user_id = request_user.user_id}
    IN  IF pc.code # NULL
        THEN [users |-> pc.users, code |-> pc.code, data |-> pc.data]
        ELSE IF \E s \in mine : ~JobRow(js, s.id).exists
        THEN [users |-> pc.users, code |-> UNHANDLED, data |-> NoData]
        ELSE [users |-> pc.users, code |-> JOB_LIST,
              data |-> [services |-> {[service |-> s.id, job |-> JobRow(js, s.id)] : s \in mine}]]

\* list_resources
list_resources_result(us, nds, gs, svcs, request_user) ==
    LET pc == permission_check(us, request_user, USER)
    IN  IF pc.code # NULL
        THEN [users |-> pc.users, code |-> pc.code, data |-> pc.data]
        ELSE [users |-> pc.users, code |-> RESOURCES,
              data |-> [gpus |-> available_resources(nds, gs, svcs)]]

\* add_worker; run_ok is whether the helper container of _update_nfs_nodes runs
add_worker_result(ws, gs, nds, worker_model, ip, run_ok) ==
    LET reg == Worker_register(ws, gs, worker_model, ip)
        h == worker_model.hostname
        labelled == [nds EXCEPT ![h].nfs_label = worker_model.local_nfs_root]
    IN  IF reg.raised
        THEN [workers |-> reg.workers, gpus |-> reg.gpus, nodes |-> nds, code |-> UNHANDLED]
        ELSE IF ~nds[h].exists
        THEN [workers |-> reg.workers, gpus |-> reg.gpus, nodes |-> nds, code |-> DOCKER_ERROR]
        ELSE IF worker_model.local_nfs_root = NULL
        THEN [workers |-> reg.workers, gpus |-> reg.gpus, nodes |-> nds, code |-> WORKER_INFO]
        ELSE IF ~run_ok
        THEN [workers |-> reg.workers, gpus |-> reg.gpus, nodes |-> labelled, code |-> UNHANDLED]
        ELSE [workers |-> reg.workers, gpus |-> reg.gpus, nodes |-> labelled, code |-> WORKER_INFO]

-----------------------------------------------------------------------------
(* The state machine *)

\* run(): beer_db.init on an empty store; no worker has joined the swarm yet
Init ==
    /\ users = db_init([u \in UserIds |-> NoUser], OwnerId)
    /\ workers = [h \in Hostnames |-> NoWorker]
    /\ gpus = {}
    /\ jobs = {}
    /\ nodes = [h \in Hostnames |-> NoNode]
    /\ services = {}
    /\ configs = [u \in UserIds |-> NULL]
    /\ next_id = 1
    /\ now = 0
    /\ nreq = 0
    /\ answer = Answer("run", NULL, NULL, NoData)
    /\ bound = [h \in Hostnames |-> NULL]

Request == nreq' = nreq + 1

set_permission(request_user, user_id, permission_level) ==
    LET r == set_permission_result(users, request_user, user_id, permission_level)
    IN  /\ Request
        /\ users' = r.users
        /\ answer' = Answer("set_permission", request_user.user_id, r.code, r.data)
        /\ UNCHANGED <<workers, gpus, jobs, nodes, services, configs, next_id, now, bound>>

register_user(request_user, user_id, run_ok) ==
    LET r == register_user_result(users, nodes, request_user, user_id, run_ok)
    IN  /\ Request
        /\ users' = r.users
        /\ answer' = Answer("register_user", request_user.user_id, r.code, r.data)
        /\ UNCHANGED <<workers, gpus, jobs, nodes, services, configs, next_id, now, bound>>

set_ssh_key(request_user, ssh_key, create_ok) ==
    LET r == set_ssh_key_result(users, configs, services, request_user, ssh_key, create_ok)
    IN  /\ Request
        /\ users' = r.users
        /\ configs' = r.configs
        /\ answer' = Answer("set_ssh_key", request_user.user_id, r.code, r.data)
        /\ UNCHANGED <<workers, gpus, jobs, nodes, services, next_id, now, bound>>

check_ssh_key(request_user) ==
    LET r == check_ssh_key_result(users, request_user)
    IN  /\ Request
        /\ users' = r.users
        /\ answer' = Answer("check_ssh_key", request_user.user_id, r.code, r.data)
        /\ UNCHANGED <<workers, gpus, jobs, nodes, services, configs, next_id, now, bound>>

job_add(request_user, job) ==
    LET c == job_add_checks(users, workers, configs, request_user, job)
    IN  /\ Request
        /\ users' = c.users
        /\ IF c.code # NULL
           THEN /\ answer' = Answer("job_add", request_user.user_id, c.code, c.data)
                /\ UNCHANGED <<jobs, services, next_id>>
           ELSE \E create_ok \in BOOLEAN :
                    LET r == job_add_dispatch(jobs, services, next_id, now, job, create_ok)
                    IN  /\ jobs' = r.jobs
                        /\ services' = r.services
                        /\ next_id' = r.next_id
                        /\ answer' = Answer("job_add", request_user.user_id, r.code, NoData)
        /\ UNCHANGED <<workers, gpus, nodes, configs, now, bound>>

job_remove(request_user, job_id, remove_ok) ==
    LET r == job_remove_result(users, jobs, services, now, request_user, job_id, remove_ok)
    IN  /\ Request
        /\ users' = r.users
        /\ jobs' = r.jobs
        /\ services' = r.services
        /\ answer' = Answer("job_remove", request_user.user_id, r.code, r.data)
        /\ UNCHANGED <<workers, gpus, nodes, configs, next_id, now, bound>>

job_list(request_user) ==
    LET r == job_list_result(users, jobs, services, request_user)
    IN  /\ Request
        /\ users' = r.users
        /\ answer' = Answer("job_list", request_user.user_id, r.code, r.data)
        /\ UNCHANGED <<workers, gpus, jobs, nodes, services, configs, next_id, now, bound>>

list_resources(request_user) ==
    LET r == list_resources_result(users, nodes, gpus, services, request_user)
    IN  /\ Request
        /\ users' = r.users
        /\ answer' = Answer("list_resources", request_user.user_id, r.code, r.data)
        /\ UNCHANGED <<workers, gpus, jobs, nodes, services, configs, next_id, now, bound>>

add_worker(worker_model, ip, run_ok) ==
    LET r == add_worker_result(workers, gpus, nodes, worker_model, ip, run_ok)
        h == worker_model.hostname
    IN  /\ Request
        /\ workers' = r.workers
        /\ gpus' = r.gpus
        /\ nodes' = r.nodes
        /\ answer' = Answer("add_worker", NULL, r.code, NoData)
        /\ bound' = IF bound[h] = NULL /\ nodes[h].exists
                     THEN [bound EXCEPT ![h] = nodes[h].id] ELSE bound
        /\ UNCHANGED <<users, jobs, services, configs, next_id, now>>

\* the environment: time passes; nodes join, change status and leave the swarm
tick ==
    /\ now < MaxTime
    /\ now' = now + 1
    /\ UNCHANGED <<users, workers, gpus, jobs, nodes, services, configs, next_id, nreq, answer, bound>>

node_join(h, id) ==
    /\ ~nodes[h].exists
    /\ nodes' = [nodes EXCEPT ![h] = Online(id)]
    /\ UNCHANGED <<users, workers, gpus, jobs, services, configs, next_id, now, nreq, answer, bound>>

node_status(h, status) ==
    /\ nodes[h].exists
    /\ <<nodes[h].state, nodes[h].availability>> # status
    /\ nodes' = [nodes EXCEPT ![h].state = status[1], ![h].availability = status[2]]
    /\ UNCHANGED <<users, workers, gpus, jobs, services, configs, next_id, now, nreq, answer, bound>>

node_leave(h) ==
    /\ nodes[h].exists
    /\ nodes' = [nodes EXCEPT ![h] = NoNode]
    /\ UNCHANGED <<users, workers, gpus, jobs, services, configs, next_id, now, nreq, answer, bound>>

Levels == Range(PermissionLevel)

\* the manager is started again on the database it left: run() calls beer_db.init,
\* which registers the owner once more; the engine keeps what it had
restart ==
    /\ users' = db_init(users, OwnerId)
    /\ answer' = Answer("run", NULL, NULL, NoData)
    /\ UNCHANGED <<workers, gpus, jobs, nodes, services, configs, next_id, now, nreq, bound>>

Active(j) == j.end_time = NoTime

\* a variant in which a reaper ends the jobs whose expected_end_time has passed
elapse_Reaping ==
    LET t == now + SecondsPerHour
        expired == {j \in jobs : Active(j) /\ j.expected_end_time < t}
    IN  /\ now < MaxHours * SecondsPerHour
        /\ now' = t
        /\ jobs' = (jobs \ expired) \cup {[j EXCEPT !.end_time = t] : j \in expired}
        /\ services' = {sv \in services : \A j \in expired : sv.id # j.service}
        /\ UNCHANGED <<users, workers, gpus, nodes, configs, next_id, nreq, answer, bound>>

\* the environment: an hour passes.  Nothing in the manager runs on a timer
elapse ==
    /\ now < MaxHours * SecondsPerHour
    /\ now' = now + SecondsPerHour
    /\ UNCHANGED <<users, workers, gpus, jobs, nodes, services, configs, next_id, nreq, answer, bound>>

\* Directory operations: users, permission levels and credentials
Next ==
    \/ nreq < MaxRequests
         /\ \E ru \in RequestUsers, u \in UserIds, l \in Range(PermissionLevel) :
                set_permission(ru, u, l)
    \/ nreq < MaxRequests
         /\ \E ru \in RequestUsers, u \in UserIds, ok \in BOOLEAN : register_user(ru, u, ok)
    \/ nreq < MaxRequests
         /\ \E ru \in RequestUsers, k \in SshKeys, ok \in BOOLEAN : set_ssh_key(ru, k, ok)
    \/ nreq < MaxRequests
         /\ \E ru \in RequestUsers : check_ssh_key(ru)

Spec == Init /\ [][Next]_vars

\* Job lifecycle: workers join, users get credentials, jobs are dispatched, listed
\* and removed while time passes and nodes come and go
JobUsers == {ru \in RequestUsers : ru.username = NULL /\ ru.user_id \in {"o", "u1"}}
JobOwners == {"o", "u1"}
SwarmHosts == {"w1"}

NextJobs ==
    \/ nreq < MaxJobRequests
         /\ \E ru \in JobUsers, u \in JobOwners : register_user(ru, u, TRUE)
    \/ nreq < MaxJobRequests
         /\ \E ru \in JobUsers, ok \in BOOLEAN : set_ssh_key(ru, "k1", ok)
    \/ nreq < MaxJobRequests
         /\ \E ru \in JobUsers, j \in {r \in JobRequests : r.user_id \in JobOwners} :
                job_add(ru, j)
    \/ nreq < MaxJobRequests
         /\ \E ru \in JobUsers, id \in 1..next_id, ok \in BOOLEAN : job_remove(ru, id, ok)
    \/ nreq < MaxJobRequests
         /\ \E ru \in JobUsers : job_list(ru)
    \/ nreq < MaxJobRequests
         /\ \E ru \in JobUsers : list_resources(ru)
    \/ nreq < MaxJobRequests
         /\ \E wm \in WorkerModels, ok \in BOOLEAN : add_worker(wm, "ip1", ok)
    \/ tick
    \/ \E h \in SwarmHosts : node_join(h, "n1")
    \/ \E h \in SwarmHosts, st \in NodeStatuses : node_status(h, st)
    \/ \E h \in SwarmHosts : node_leave(h)

SpecJobs == Init /\ [][NextJobs]_vars

\* Worker registry: workers announce themselves, again and again, from one address
\* or another, while their nodes join and leave the swarm
NextWorkers ==
    \/ nreq < MaxWorkerRequests
         /\ \E wm \in WorkerModels, ip \in Ips, ok \in BOOLEAN : add_worker(wm, ip, ok)
    \/ \E h \in SwarmHosts, id \in NodeIds : node_join(h, id)
    \/ \E h \in SwarmHosts, st \in NodeStatuses : node_status(h, st)
    \/ \E h \in SwarmHosts : node_leave(h)

SpecWorkers == Init /\ [][NextWorkers]_vars

\* Key rotation: users set one key or another while their jobs come and go
NextKeys ==
    \/ nreq < MaxKeyRequests
         /\ \E ru \in JobUsers, u \in JobOwners : register_user(ru, u, TRUE)
    \/ nreq < MaxKeyRequests
         /\ \E ru \in JobUsers, k \in SshKeys, ok \in BOOLEAN : set_ssh_key(ru, k, ok)
    \/ nreq < MaxKeyRequests
         /\ \E ru \in JobUsers, j \in {r \in JobRequests : r.user_id \in JobOwners} :
                job_add(ru, j)
    \/ nreq < MaxKeyRequests
         /\ \E ru \in JobUsers, id \in 1..next_id, ok \in BOOLEAN : job_remove(ru, id, ok)
    \/ nreq < MaxKeyRequests
         /\ \E wm \in WorkerModels : add_worker(wm, "ip1", TRUE)

SpecKeys == Init /\ [][NextKeys]_vars

\* Job removal: jobs pinning one GPU of one worker are dispatched and removed, by
\* their owner or by someone else, once or again, while time passes
PinnedJobs ==
    {r \in JobRequests : r.user_id \in JobOwners /\ r.worker_hostname = "w1" /\ r.gpus = <<GA>>}

NextRemove ==
    \/ nreq < MaxRemoveRequests
         /\ \E ru \in JobUsers, u \in JobOwners : register_user(ru, u, TRUE)
    \/ nreq < MaxRemoveRequests
         /\ \E ru \in JobUsers : set_ssh_key(ru, "k1", TRUE)
    \/ nreq < MaxRemoveRequests
         /\ \E ru \in JobUsers, j \in PinnedJobs : job_add(ru, j)
    \/ nreq < MaxRemoveRequests
         /\ \E ru \in JobUsers, id \in 1..next_id, ok \in BOOLEAN : job_remove(ru, id, ok)
    \/ nreq < MaxRemoveRequests
         /\ \E wm \in WorkerModels : add_worker(wm, "ip1", TRUE)
    \/ tick

SpecRemove == Init /\ [][NextRemove]_vars

\* Job listing: two users, each with a key of its own, dispatch jobs for themselves
\* or for one another, remove them and list them
ListedJobs ==
    {r \in JobRequests : /\ r.user_id \in JobOwners /\ r.worker_hostname = "w1"
                         /\ r.gpus \in {<<>>, <<GA>>}}
FirstModel == CHOOSE wm \in WorkerModels : Len(wm.gpus) = 2 /\ wm.local_nfs_root = NULL

NextList ==
    \/ nreq < MaxListRequests
         /\ \E ru \in JobUsers : register_user(ru, "u1", TRUE)
    \/ nreq < MaxListRequests
         /\ \E ru \in JobUsers, k \in SshKeys : set_ssh_key(ru, k, TRUE)
    \/ nreq < MaxListRequests
         /\ \E ru \in JobUsers, j \in ListedJobs : job_add(ru, j)
    \/ nreq < MaxListRequests
         /\ \E ru \in JobUsers, id \in 1..next_id : job_remove(ru, id, TRUE)
    \/ nreq < MaxListRequests
         /\ \E ru \in JobUsers : job_list(ru)
    \/ nreq < MaxListRequests
         /\ add_worker(FirstModel, "ip1", TRUE)

SpecList == Init /\ [][NextList]_vars

\* Restarts: users are registered, get levels and keys, workers announce
\* themselves, and the manager is stopped and started again in between
NextRestart ==
    \/ nreq < MaxRestartRequests
         /\ \E ru \in JobUsers, u \in JobOwners, l \in Levels : set_permission(ru, u, l)
    \/ nreq < MaxRestartRequests
         /\ \E ru \in JobUsers, u \in JobOwners : register_user(ru, u, TRUE)
    \/ nreq < MaxRestartRequests
         /\ \E ru \in JobUsers, k \in SshKeys : set_ssh_key(ru, k, TRUE)
    \/ nreq < MaxRestartRequests
         /\ \E wm \in WorkerModels : add_worker(wm, "ip1", TRUE)
    \/ restart

SpecRestart == Init /\ [][NextRestart]_vars

\* Expiry: jobs of two hours are dispatched, listed and removed while the hours pass
NextExpiry ==
    \/ nreq < MaxExpiryRequests
         /\ \E ru \in JobUsers : set_ssh_key(ru, "k1", TRUE)
    \/ nreq < MaxExpiryRequests
         /\ \E ru \in JobUsers, j \in PinnedJobs : job_add(ru, j)
    \/ nreq < MaxExpiryRequests
         /\ \E ru \in JobUsers, id \in 1..next_id, ok \in BOOLEAN : job_remove(ru, id, ok)
    \/ nreq < MaxExpiryRequests
         /\ \E ru \in JobUsers : list_resources(ru)
    \/ nreq < MaxExpiryRequests
         /\ add_worker(FirstModel, "ip1", TRUE)
    \/ elapse
    \/ node_join("w1", "n1")

SpecExpiry == Init /\ [][NextExpiry]_vars

\* Storage preparation: workers that serve storage join and announce themselves,
\* and users are registered while the helper container runs or fails
NextStorage ==
    \/ nreq < MaxStorageRequests
         /\ \E ru \in JobUsers, u \in UserIds, ok \in BOOLEAN : register_user(ru, u, ok)
    \/ nreq < MaxStorageRequests
         /\ \E wm \in WorkerModels, ok \in BOOLEAN : add_worker(wm, "ip1", ok)
    \/ \E h \in SwarmHosts : node_join(h, "n1")
    \/ \E h \in SwarmHosts : node_leave(h)

SpecStorage == Init /\ [][NextStorage]_vars

-----------------------------------------------------------------------------
(* Vocabulary of the properties *)

\* the acting user holds a stored level at least as privileged as `level`
Authorized(user_id, level) ==
    users[user_id].exists /\ users[user_id].permission_level <= level

\* this step left table User as it was, but for the username and full_name of
\* the row of user_id
SameButProfile(user_id) ==
    \A v \in UserIds :
        IF v = user_id /\ users[v].exists /\ users'[v].exists
        THEN /\ users'[v].permission_level = users[v].permission_level
             /\ users'[v].public_ssh_key = users[v].public_ssh_key
        ELSE users'[v] = users[v]

\* this step changed users, credentials, placements or jobs beyond that
Mutated(user_id) ==
    \/ ~SameButProfile(user_id)
    \/ configs' # configs
    \/ jobs' # jobs
    \/ services' # services

\* the uuids a job asked for: the one on its row and those its placement carries
Requested(j) == {j.gpu} \cup UNION {s.env : s \in {x \in services : x.id = j.service}}

-----------------------------------------------------------------------------
(* Properties *)

\* C1: no double-booking: no GPU uuid is referenced by two jobs whose end_time is
\* null (two dispatches pinning the same GPU cannot both succeed while it is busy)
C1_NoDoubleBooking ==
    \A j1, j2 \in jobs :
        (Active(j1) /\ Active(j2) /\ j1 # j2) => Requested(j1) \cap Requested(j2) = {}

\* C2: for every job with end_time null on worker W, none of the uuids the job
\* asked for is in the list list_resources returns for W
C2_ActiveJobsNotListed ==
    LET avail == available_resources(nodes, gpus, services)
    IN  \A j \in jobs :
            (Active(j) /\ j.worker_hostname \in DOMAIN avail)
                => Requested(j) \cap avail[j.worker_hostname] = {}

C2_Witness ==
    LET avail == available_resources(nodes, gpus, services)
    IN  \E j \in jobs :
            /\ Active(j)
            /\ j.worker_hostname \in DOMAIN avail
            /\ Requested(j) = {GA, GB}
            /\ \A u \in Requested(j) :
                   \E g \in gpus : g.worker = j.worker_hostname /\ g.uuid = u

\* C3: a dispatch pinning a free GPU G of worker W that is followed at once by a
\* successful remove_job of that job leaves G listed for W again (W being online
\* when the list is taken) and the Job row with a non-null end_time
C3_RoundTrip ==
    [][ (/\ answer.op = "job_add" /\ answer.code = DISPATCH_OK
         /\ answer'.op = "job_remove" /\ answer'.code = JOB_REMOVE_OK
         /\ nreq' = nreq + 1
         /\ JobRow(jobs', next_id - 1) # JobRow(jobs, next_id - 1))
        => LET j == JobRow(jobs, next_id - 1)
               W == j.worker_hostname
               others == {s \in services : s.id # j.service}
               listed == available_resources(nodes', gpus', services')
           IN  /\ JobRow(jobs', j.service).exists
               /\ JobRow(jobs', j.service).end_time # NoTime
               /\ \A G \in Requested(j) :
                      (/\ G \notin busy_gpus(others)
                       /\ \E g \in gpus : g.worker = W /\ g.uuid = G
                       /\ W \in online_workers(nodes'))
                      => (W \in DOMAIN listed /\ G \in listed[W]) ]_vars

C3_Witness ==
    LET avail == available_resources(nodes, gpus, services)
        j == JobRow(jobs, next_id - 1)
    IN  /\ answer.op = "job_remove" /\ answer.code = JOB_REMOVE_OK
        /\ nreq = 4
        /\ next_id = 2
        /\ j.exists /\ j.end_time # NoTime
        /\ j.worker_hostname \in DOMAIN avail
        /\ j.gpu \in avail[j.worker_hostname]

\* C4: set_permission on a registered target succeeds, giving the target level L,
\* exactly when the acting user holds higher_permission(L) or better
C4_SetPermissionGate ==
    [][ \A ru \in RequestUsers, u \in UserIds, l \in Levels :
            (set_permission(ru, u, l) /\ users[u].exists)
            => ((answer'.code = REGISTRATION_SUCCESSFUL /\ users'[u].permission_level = l)
                <=> Authorized(ru.user_id, higher_permission(l))) ]_vars

\* C5: no set_permission whose acting user is also the target makes that user's
\* stored level more privileged than it was
C5_NoSelfEscalation ==
    [][ \A ru \in RequestUsers, l \in Levels :
            (set_permission(ru, ru.user_id, l) /\ users[ru.user_id].exists)
            => (/\ users'[ru.user_id].exists
                /\ users'[ru.user_id].permission_level >= users[ru.user_id].permission_level) ]_vars

\* C6: a request that changes users, credentials or jobs does so only if the acting
\* user is registered and holds the level the operation requires
C6_MutationsAuthorized ==
    [][ \A ru \in RequestUsers :
            /\ \A u \in UserIds, l \in Levels :
                   (set_permission(ru, u, l) /\ Mutated(ru.user_id))
                   => Authorized(ru.user_id, higher_permission(l))
            /\ \A u \in UserIds, ok \in BOOLEAN :
                   (register_user(ru, u, ok) /\ Mutated(ru.user_id))
                   => Authorized(ru.user_id, ADMIN)
            /\ \A k \in SshKeys, ok \in BOOLEAN :
                   (set_ssh_key(ru, k, ok) /\ Mutated(ru.user_id))
                   => Authorized(ru.user_id, USER)
            /\ \A j \in JobRequests :
                   (job_add(ru, j) /\ Mutated(ru.user_id)) => Authorized(ru.user_id, USER)
            /\ \A id \in 1..next_id, ok \in BOOLEAN :
                   (job_remove(ru, id, ok) /\ Mutated(ru.user_id))
                   => Authorized(ru.user_id, USER) ]_vars

\* C7: dispatch_job by a user who is not registered answers NotRegistered, requests
\* no placement and leaves the Job rows as they were
C7_UnregisteredDispatch ==
    [][ (/\ nreq' = nreq + 1
         /\ answer'.op = "job_add"
         /\ ~users[answer'.user].exists)
        => (/\ answer'.code = NOT_REGISTERED_ERROR
            /\ services' = services
            /\ next_id' = next_id
            /\ jobs' = jobs) ]_vars

\* an unregistered user was refused a dispatch that the owner of the job, who has
\* a key, and the worker, which has joined, would have allowed
C7_Witness ==
    /\ answer.op = "job_add"
    /\ answer.code = NOT_REGISTERED_ERROR
    /\ ~users[answer.user].exists
    /\ \E h \in Hostnames : workers[h].exists
    /\ users[OwnerId].public_ssh_key # NULL
    /\ configs[OwnerId] # NULL

\* C8: every NotRegistered answer carries the admin list, and the list is not
\* empty (the bootstrap owner is on it whether or not it has a username)
C8_AdminListNonEmpty ==
    answer.code = NOT_REGISTERED_ERROR
        => ("admins" \in DOMAIN answer.data /\ answer.data.admins # {})

\* C9: where NotRegistered does not apply, the permission check answers
\* PermissionDenied exactly when the acting user holds no stored level as
\* privileged as the required one, and lets the request through otherwise
\* (seen on register_user, which requires ADMIN and returns the check's answer)
C9_PermissionDeniedIff ==
    [][ \A ru \in RequestUsers, u \in UserIds, ok \in BOOLEAN :
            register_user(ru, u, ok)
            => /\ answer'.code = PERMISSION_ERROR <=> ~Authorized(ru.user_id, ADMIN)
               /\ Authorized(ru.user_id, ADMIN)
                      => answer'.code \in {ALREADY_REGISTERED_ERROR, REGISTRATION_SUCCESSFUL,
                                           DB_ERROR} ]_vars

\* this step handled a request on which the handler ran the permission check and
\* nothing else: check_ssh_key, or a request the check itself answered
AuthorizeOnly ==
    /\ nreq' = nreq + 1
    /\ \/ answer'.op = "check_ssh_key"
       \/ answer'.code = NOT_REGISTERED_ERROR /\ "admins" \in DOMAIN answer'.data
       \/ answer'.op = "register_user" /\ answer'.code = PERMISSION_ERROR

\* C10: the permission check changes nothing but the username and full_name of the
\* acting user's own row, and creates no row for an unregistered acting user
C10_AuthorizeFrame ==
    [][ AuthorizeOnly
        => (/\ SameButProfile(answer'.user)
            /\ users'[answer'.user].exists = users[answer'.user].exists
            /\ UNCHANGED <<workers, gpus, jobs, nodes, services, configs, next_id>>) ]_vars

\* the owner's first request was check_ssh_key: its profile is refreshed, its level
\* is still OWNER, and no other user has a row
C10_Witness ==
    /\ answer.op = "check_ssh_key"
    /\ answer.code = KEY_CHECK
    /\ nreq = 1
    /\ users[OwnerId].username = "ann"
    /\ users[OwnerId].full_name = "F"
    /\ users[OwnerId].permission_level = OWNER
    /\ \A u \in UserIds \ {OwnerId} : ~users[u].exists

\* the GPU rows of worker h with this uuid
GpuRows(gs, h, uuid) == {g \in gs : g.worker = h /\ g.uuid = uuid}

\* every GPU the worker reports has a row already
Reregistration(wm) ==
    /\ workers[wm.hostname].exists
    /\ \A i \in DOMAIN wm.gpus : GpuRows(gpus, wm.hostname, wm.gpus[i].uuid) # {}

\* C11: registering a worker again leaves one Worker row for its hostname, with the
\* ip and the storage root of the new registration, and one GPU row per reported
\* uuid: no GPU row is added
C11_ReregisterIdempotent ==
    [][ \A wm \in WorkerModels, ip \in Ips, ok \in BOOLEAN :
            (add_worker(wm, ip, ok) /\ Reregistration(wm))
            => (/\ workers'[wm.hostname] =
                       [exists |-> TRUE, ip |-> ip, local_nfs_root |-> wm.local_nfs_root]
                /\ \A h \in Hostnames \ {wm.hostname} : workers'[h] = workers[h]
                /\ gpus' = gpus
                /\ \A i \in DOMAIN wm.gpus :
                       Cardinality(GpuRows(gpus', wm.hostname, wm.gpus[i].uuid)) = 1) ]_vars

\* a worker that registered from ip1 without a storage root has registered again
\* from ip2 with one, reporting a GPU it had reported before
C11_Witness ==
    /\ nreq = 2
    /\ answer.op = "add_worker"
    /\ workers["w1"] = [exists |-> TRUE, ip |-> "ip2", local_nfs_root |-> NfsRoot]
    /\ Cardinality(GpuRows(gpus, "w1", GA)) = 1
    /\ Cardinality(gpus) = 2

\* the hostname has a Worker row that was registered as one swarm node, and the
\* node that stands behind the hostname now is another
Collision(h) ==
    /\ workers[h].exists
    /\ nodes[h].exists
    /\ bound[h] # NULL
    /\ bound[h] # nodes[h].id

\* C12: registering a worker whose hostname is bound to a different join identity
\* answers WorkerCollision (DB_ERROR) and leaves the Worker row and its GPU rows
\* as they were
C12_CollisionRejected ==
    [][ \A wm \in WorkerModels, ip \in Ips, ok \in BOOLEAN :
            (add_worker(wm, ip, ok) /\ Collision(wm.hostname))
            => (/\ answer'.code = DB_ERROR
                /\ workers' = workers
                /\ gpus' = gpus) ]_vars

\* C13: set_credential while the user's stored config is referenced by a live
\* service answers CredentialInUse (KEY_IN_USE_ERROR) and leaves the config in the
\* engine and the key on the user's row as they were
C13_KeyInUse ==
    [][ (/\ nreq' = nreq + 1
         /\ answer'.op = "set_ssh_key"
         /\ users[answer'.user].exists
         /\ configs[answer'.user] # NULL
         /\ \E sv \in services : sv.config = answer'.user)
        => (/\ answer'.code = KEY_IN_USE_ERROR
            /\ configs' = configs
            /\ users'[answer'.user].public_ssh_key = users[answer'.user].public_ssh_key
            /\ services' = services) ]_vars

\* the owner, whose key is k1 and whose job is running, was refused a new key
C13_Witness ==
    /\ answer.op = "set_ssh_key"
    /\ answer.code = KEY_IN_USE_ERROR
    /\ answer.user = OwnerId
    /\ configs[OwnerId] = "k1"
    /\ users[OwnerId].public_ssh_key = "k1"
    /\ \E s \in services : s.config = OwnerId

\* C14: a Job row is written only after the engine created the placement of the
\* same dispatch: every row a dispatch adds names a service that dispatch created,
\* and a dispatch that creates no service leaves the Job rows as they were
C14_RowAfterPlacement ==
    [][ (nreq' = nreq + 1 /\ answer'.op = "job_add")
        => (/\ services' = services => jobs' = jobs
            /\ \A j \in jobs' \ jobs :
                   \E sv \in services' \ services : sv.id = j.service /\ sv.name = j.name) ]_vars

\* after a dispatch that went through, a second one was answered with an error by
\* a manager whose worker, key and config were all in place: one row, one service
C14_Witness ==
    /\ answer.op = "job_add"
    /\ answer.code = UNHANDLED
    /\ answer.user = OwnerId
    /\ workers["w1"].exists
    /\ users[OwnerId].public_ssh_key # NULL /\ configs[OwnerId] # NULL
    /\ next_id = 2
    /\ Cardinality(jobs) = 1 /\ Cardinality(services) = 1

\* this step requested no placement and wrote no Job row
NothingDispatched == services' = services /\ jobs' = jobs /\ next_id' = next_id

C16_DispatchValidated ==
    [][ (nreq' = nreq + 1 /\ answer'.op = "job_add" /\ answer'.code = DISPATCH_OK)
        => LET listed == available_resources(nodes, gpus, services)
           IN  \A sv \in services' \ services :
                   /\ sv.hostname \in DOMAIN listed
                   /\ sv.env \subseteq listed[sv.hostname] ]_vars

\* C17: a successful dispatch adds exactly one Job row: end_time null, start_time
\* the time of the dispatch, expected_end_time the requested hours later, the
\* requested worker, and as its GPUs the full set of uuids requested; no other
\* Job row, no Worker or GPU row and no user's level or key changes
C17_SingleLedgerWrite ==
    [][ (nreq' = nreq + 1 /\ answer'.op = "job_add" /\ answer'.code = DISPATCH_OK)
        => (/\ jobs \subseteq jobs'
            /\ Cardinality(jobs' \ jobs) = 1
            /\ \A j \in jobs' \ jobs :
                   /\ j.end_time = NoTime
                   /\ j.start_time = now
                   /\ \E d \in Durations : j.expected_end_time = now + d * SecondsPerHour
                   /\ \E sv \in services' \ services :
                          /\ sv.id = j.service
                          /\ j.worker_hostname = sv.hostname
                          /\ {j.gpu} = sv.env
            /\ workers' = workers
            /\ gpus' = gpus
            /\ SameButProfile(answer'.user)) ]_vars

\* C18: remove_job succeeds only for the job's owner or a user of level ADMIN or
\* above; any other registered user gets PermissionDenied, the service is not
\* removed and the Job row keeps its end_time
C18_RemoveAuthorized ==
    [][ (nreq' = nreq + 1 /\ answer'.op = "job_remove")
        => \A ru \in JobUsers, id \in 1..next_id, ok \in BOOLEAN :
               (job_remove(ru, id, ok) /\ users[ru.user_id].exists /\ JobRow(jobs, id).exists)
               => LET allowed == \/ JobRow(jobs, id).user = ru.user_id
                                 \/ Authorized(ru.user_id, ADMIN)
                  IN  /\ answer'.code = JOB_REMOVE_OK => allowed
                      /\ ~allowed => (/\ answer'.code = PERMISSION_ERROR
                                      /\ services' = services
                                      /\ jobs' = jobs) ]_vars

\* u1, a plain user, was refused the removal of the owner's running job
C18_Witness ==
    /\ answer.op = "job_remove"
    /\ answer.code = PERMISSION_ERROR
    /\ answer.user = "u1"
    /\ users["u1"].exists /\ users["u1"].permission_level = USER
    /\ \A j \in jobs : j.user = OwnerId /\ Active(j)
    /\ jobs # {}
    /\ \A j \in jobs : \E sv \in services : sv.id = j.service

\* the running jobs the acting user of the last request may remove: its own, or
\* all of them if it is ADMIN or above
Removable ==
    {j \in jobs : /\ Active(j)
                  /\ \E sv \in services : sv.id = j.service
                  /\ (j.user = answer.user \/ Authorized(answer.user, ADMIN))}

\* C19: remove_job tears the placement down before it writes the ledger: end_time
\* is stamped only in a step that removed the job's service, a removal whose
\* teardown fails leaves the Job rows as they were, and a later remove_job of the
\* same job still succeeds once the engine removes the service
C19_TeardownBeforeLedger ==
    [][ (nreq' = nreq + 1 /\ answer'.op = "job_remove")
        => (/\ services' = services => jobs' = jobs
            /\ \A j \in jobs \ jobs' :
                   /\ \E sv \in services \ services' : sv.id = j.service
                   /\ ~\E sv \in services' : sv.id = j.service
            /\ (answer'.code = UNHANDLED /\ users[answer'.user].exists)
                   => \A j \in Removable' :
                          \A ru \in {x \in JobUsers : x.user_id = answer'.user} :
                              job_remove_result(users', jobs', services', now', ru,
                                                j.service, TRUE).code = JOB_REMOVE_OK) ]_vars

\* the owner's removal failed while its only job was running: the row has no
\* end_time and the service is still there
C19_Witness ==
    /\ answer.op = "job_remove"
    /\ answer.code = UNHANDLED
    /\ answer.user = OwnerId
    /\ Cardinality(jobs) = 1
    /\ Removable = jobs
    /\ next_id = 2

\* C20: a remove_job of a job that was removed already (by a request before it,
\* or by one that overtook it) tears nothing down, leaves end_time as the first
\* removal set it, and is answered as a success without effect or with a typed
\* NotFound/AlreadyEnded result
C20_RepeatedRemove ==
    [][ (nreq' = nreq + 1 /\ answer'.op = "job_remove")
        => \A ru \in JobUsers, id \in 1..next_id, ok \in BOOLEAN :
               (/\ job_remove(ru, id, ok)
                /\ JobRow(jobs, id).exists
                /\ ~Active(JobRow(jobs, id))
                /\ users[ru.user_id].exists
                /\ (JobRow(jobs, id).user = ru.user_id \/ Authorized(ru.user_id, ADMIN)))
               => (/\ jobs' = jobs
                   /\ services' = services
                   /\ answer'.code # UNHANDLED) ]_vars

\* C21: Job rows are append-mostly: a row, once created, is never deleted; none of
\* its fields but end_time ever changes; end_time changes only from null to a
\* value, never back to null and never to a second value
C21_JobRowsAppendMostly ==
    [][ \A j \in jobs :
            LET k == JobRow(jobs', j.service)
            IN  /\ k.exists
                /\ Cardinality({x \in jobs' : x.service = j.service}) = 1
                /\ [k EXCEPT !.end_time = j.end_time] = j
                /\ j.end_time # NoTime => k.end_time = j.end_time
                /\ k.end_time # j.end_time => k.end_time # NoTime ]_vars

\* the owner's job ended at time 0; at time 1 the owner asked to remove it again
\* and the row still carries the end_time of the first removal
C21_Witness ==
    /\ answer.op = "job_remove"
    /\ answer.code = UNHANDLED
    /\ answer.user = OwnerId
    /\ now = 1
    /\ nreq = 5
    /\ jobs # {}
    /\ \A j \in jobs : j.user = OwnerId /\ j.end_time = 0
    /\ services = {}

\* every live service labelled with this user's id has a Job row (a dispatch
\* with an empty GPU list leaves a service without one)
EveryServiceHasRow(user_id) ==
    \A sv \in services : sv.user_id = user_id => JobRow(jobs, sv.id).exists

C23_OnlineWorkersOnly ==
    [][ (nreq' = nreq + 1 /\ answer'.op = "list_resources" /\ answer'.code = RESOURCES)
        => (/\ \A h \in DOMAIN answer'.data.gpus :
                   /\ nodes[h].exists
                   /\ nodes[h].state = "ready"
                   /\ nodes[h].availability = "active"
                   /\ answer'.data.gpus[h] \subseteq {g.uuid : g \in {x \in gpus : x.worker = h}}
            /\ workers' = workers
            /\ gpus' = gpus) ]_vars

\* the worker has a row and two GPU rows, its node is in the swarm but drained,
\* and the listing just given is empty
C23_Witness ==
    /\ answer.op = "list_resources"
    /\ answer.code = RESOURCES
    /\ DOMAIN answer.data.gpus = {}
    /\ workers["w1"].exists
    /\ Cardinality({g \in gpus : g.worker = "w1"}) = 2
    /\ nodes["w1"].exists
    /\ nodes["w1"].state = "ready"
    /\ nodes["w1"].availability = "drain"
    /\ services = {}

\* C24: register_user by an acting user of level ADMIN or above answers
\* AlreadyRegistered for a target that has a row and leaves that row as it was
\* (its level and its key; its names too unless the target is the acting user,
\* whose names every request refreshes), and otherwise creates the target's row at
\* level USER; by an acting user below ADMIN, or without a row, it answers
\* PermissionDenied and creates no row
C24_RegisterUser ==
    [][ \A ru \in RequestUsers, u \in UserIds, ok \in BOOLEAN :
            register_user(ru, u, ok)
            => /\ (Authorized(ru.user_id, ADMIN) /\ users[u].exists)
                      => (/\ answer'.code = ALREADY_REGISTERED_ERROR
                          /\ SameButProfile(ru.user_id)
                          /\ u # ru.user_id => users'[u] = users[u])
               /\ (Authorized(ru.user_id, ADMIN) /\ ~users[u].exists)
                      => (/\ answer'.code \in {REGISTRATION_SUCCESSFUL, DB_ERROR}
                          /\ users'[u] = UserDefaults(USER)
                          /\ \A v \in UserIds \ {u, ru.user_id} : users'[v] = users[v])
               /\ ~Authorized(ru.user_id, ADMIN)
                      => (/\ answer'.code = PERMISSION_ERROR
                          /\ \A v \in UserIds : users'[v].exists = users[v].exists) ]_vars

\* C25: set_permission on a target that has no row answers NotRegistered and
\* creates no row; set_permission never creates a user, and on a target that has
\* a row it changes nothing of that row but the level
C25_SetPermissionExistingOnly ==
    [][ \A ru \in RequestUsers, u \in UserIds, l \in Levels :
            set_permission(ru, u, l)
            => /\ ~users[u].exists => answer'.code = NOT_REGISTERED_ERROR
               /\ \A v \in UserIds : users'[v].exists = users[v].exists
               /\ (users[u].exists /\ u # ru.user_id)
                      => users' = [users' EXCEPT ![u] =
                                       [users[u] EXCEPT !.permission_level =
                                                            users'[u].permission_level]] ]_vars

\* C26: a dispatch by a registered user that names a worker without a Worker row,
\* and a remove_job by a registered user that names a job without a Job row, are
\* each answered with a typed result (not an unhandled failure, not a success) and
\* leave the placements and the Job rows as they were
C26_NotFoundTyped ==
    [][ (nreq' = nreq + 1 /\ answer'.op \in {"job_add", "job_remove"})
        => /\ \A ru \in JobUsers, j \in PinnedJobs :
                  (/\ job_add(ru, j)
                   /\ users[ru.user_id].exists
                   /\ ~workers[j.worker_hostname].exists)
                  => (/\ answer'.code \notin {UNHANDLED, DISPATCH_OK}
                      /\ NothingDispatched)
           /\ \A ru \in JobUsers, id \in 1..next_id, ok \in BOOLEAN :
                  (/\ job_remove(ru, id, ok)
                   /\ users[ru.user_id].exists
                   /\ ~JobRow(jobs, id).exists)
                  => (/\ answer'.code \notin {UNHANDLED, JOB_REMOVE_OK}
                      /\ NothingDispatched) ]_vars

\* C27: users, workers and GPUs are never removed and never re-created from
\* scratch: in every step every id that had a row still has one, every GPU row is
\* still there, and no row of table User loses the key or the full name it held
C27_RowsOnlyGrow ==
    [][ /\ \A u \in UserIds :
               users[u].exists
               => (/\ users'[u].exists
                   /\ users[u].public_ssh_key # NULL => users'[u].public_ssh_key # NULL
                   /\ users[u].full_name # NULL => users'[u].full_name # NULL)
        /\ \A h \in Hostnames : workers[h].exists => workers'[h].exists
        /\ gpus \subseteq gpus' ]_vars

\* the busy GPUs as the ledger gives them: the GPUs on the Job rows whose
\* end_time is null
ledger_busy_gpus(js) == {j.gpu : j \in {x \in js : Active(x)}}

\* C28: whenever no request is in flight, the busy GPUs list_resources derives from
\* the labels of the live placements are the GPUs of the Job rows whose end_time
\* is null
C28_BusySetsAgree == busy_gpus(services) = ledger_busy_gpus(jobs)

\* the request user_id sends when its chat account has no username
Plain(user_id) == CHOOSE ru \in JobUsers : ru.user_id = user_id

\* check_credential(user_id), asked now, answers isSet = true
IsSet(user_id) ==
    LET r == check_ssh_key_result(users, Plain(user_id))
    IN  r.code = KEY_CHECK /\ r.data.is_set

\* no dispatch owned by user_id, asked now by user_id, fails with CredentialMissing
KeyAccepted(user_id) ==
    \A j \in {r \in JobRequests : r.user_id = user_id} :
        job_add_checks(users, workers, configs, Plain(user_id), j).code # KEY_MISSING_ERROR

\* this step answered a set_credential of user_id with success
SetKeySucceeded(user_id) ==
    /\ nreq' = nreq + 1
    /\ answer'.op = "set_ssh_key"
    /\ answer'.code = SET_KEY_SUCCESSFUL
    /\ answer'.user = user_id

\* C29: once a set_credential of user U has returned success, check_credential(U)
\* answers isSet = true and no dispatch owned by U fails with CredentialMissing,
\* from then on; and check_credential answers isSet = true for no user who has not
\* had a successful set_credential
C29_CredentialSet ==
    [][ \A u \in JobOwners :
            /\ SetKeySucceeded(u) => (IsSet(u)' /\ KeyAccepted(u)')
            /\ (IsSet(u) /\ KeyAccepted(u)) => (IsSet(u)' /\ KeyAccepted(u)')
            /\ (~IsSet(u) /\ IsSet(u)') => SetKeySucceeded(u) ]_vars

\* C30: when a worker that has a row registers again, every GPU row it had is
\* still there with every field as it was, and every GPU it reports has a row
\* afterwards: the reported uuids not yet known for the worker get a new one
C30_ReregisterGpus ==
    [][ \A wm \in WorkerModels, ip \in Ips, ok \in BOOLEAN :
            (add_worker(wm, ip, ok) /\ workers[wm.hostname].exists)
            => (/\ gpus \subseteq gpus'
                /\ \A i \in DOMAIN wm.gpus :
                       GpuRows(gpus', wm.hostname, wm.gpus[i].uuid)
                           = {[worker |-> wm.hostname, uuid |-> wm.gpus[i].uuid,
                               index |-> IF GpuRows(gpus, wm.hostname, wm.gpus[i].uuid) # {}
                                         THEN (CHOOSE g \in GpuRows(gpus, wm.hostname,
                                                                    wm.gpus[i].uuid) : TRUE).index
                                         ELSE wm.gpus[i].index]}) ]_vars

\* C31: in every state no two GPU rows have the same worker and index, and no
\* two have the same worker and uuid
C31_GpuKeysUnique ==
    \A g1, g2 \in gpus :
        (g1 # g2 /\ g1.worker = g2.worker) => (g1.index # g2.index /\ g1.uuid # g2.uuid)

\* the worker had announced GPU b at index 0; it announced again with GPU a at
\* index 0, the insert was refused, and the table holds the one row it held
C31_Witness ==
    /\ answer.op = "add_worker"
    /\ answer.code = UNHANDLED
    /\ nreq = 2
    /\ gpus = {[worker |-> "w1", uuid |-> GB, index |-> 0]}

\* C32: every Job row names one worker: its worker_hostname is the hostname of a
\* Worker row, and the placement of the job, while it lives, is pinned to that
\* same hostname
C32_JobHasWorker ==
    \A j \in jobs :
        /\ workers[j.worker_hostname].exists
        /\ \A sv \in services : sv.id = j.service => sv.hostname = j.worker_hostname

\* a job was just dispatched on w1, which has a row; its placement is pinned to w1
C32_Witness ==
    /\ answer.op = "job_add"
    /\ answer.code = DISPATCH_OK
    /\ \E j \in jobs, sv \in services :
           /\ sv.id = j.service
           /\ j.worker_hostname = "w1"
           /\ sv.hostname = "w1"
           /\ workers["w1"].exists
    /\ ~workers["w2"].exists

\* C33: a dispatch asks the engine for at most one placement; when the engine
\* refuses or fails, the request is answered with the error, nothing is asked
\* again and no Job row is written
C33_OneCreationCall ==
    [][ (nreq' = nreq + 1 /\ answer'.op = "job_add")
        => (/\ services \subseteq services'
            /\ Cardinality(services' \ services) <= 1
            /\ next_id' - next_id = Cardinality(services' \ services)
            /\ services' = services
                   => (/\ answer'.code # DISPATCH_OK
                       /\ jobs' = jobs)) ]_vars

\* the owner's dispatch met every precondition (worker, owner rows, key, config)
\* and the engine failed to create the service: the error was answered, and there
\* is neither a service nor a Job row
C33_Witness ==
    /\ answer.op = "job_add"
    /\ answer.code = UNHANDLED
    /\ answer.user = OwnerId
    /\ workers["w1"].exists
    /\ users["u1"].exists
    /\ users[OwnerId].public_ssh_key # NULL /\ configs[OwnerId] # NULL
    /\ services = {} /\ jobs = {} /\ next_id = 1

\* C34: a job is never ended automatically.  A Job row whose end_time is null gets
\* one only in a step that answers a remove_job with success; in every other
\* step, the passing of its expected_end_time included, the row stays as it is,
\* its service stays live and its GPU stays out of the listing of its worker
C34_NoAutomaticEnd ==
    [][ \A j \in jobs :
            Active(j)
            => LET k == JobRow(jobs', j.service)
                   listed == available_resources(nodes', gpus', services')
               IN  /\ ~Active(k)
                       => (/\ nreq' = nreq + 1
                           /\ answer'.op = "job_remove"
                           /\ answer'.code = JOB_REMOVE_OK)
                   /\ Active(k)
                       => (/\ k = j
                           /\ \E sv \in services' : sv.id = j.service
                           /\ j.worker_hostname \in DOMAIN listed
                                  => j.gpu \notin listed[j.worker_hostname]) ]_vars

\* an hour after the job's expected_end_time the owner asked for the resources:
\* the job's row has no end_time, its service is live, and its worker, which is
\* online, is listed without the job's GPU
C34_Witness ==
    /\ answer.op = "list_resources"
    /\ answer.code = RESOURCES
    /\ "w1" \in DOMAIN answer.data.gpus
    /\ GA \notin answer.data.gpus["w1"]
    /\ \E j \in jobs :
           /\ Active(j)
           /\ j.expected_end_time < now
           /\ j.gpu = GA
           /\ \E sv \in services : sv.id = j.service

\* C35: the owner written on the Job row of a successful dispatch, the user its
\* placement is labelled with and the user whose key the placement gets are the
\* acting user of the request
C35_OwnerIsActingUser ==
    [][ (nreq' = nreq + 1 /\ answer'.op = "job_add" /\ answer'.code = DISPATCH_OK)
        => (/\ \A j \in jobs' \ jobs : j.user = answer'.user
            /\ \A sv \in services' \ services :
                   sv.user_id = answer'.user /\ sv.config = answer'.user) ]_vars

\* C36: a set_permission that is answered with success leaves the target's key,
\* username and full_name as they were, and every other user's row too (but for
\* the names of the acting user, which every request refreshes)
C36_SetPermissionFrame ==
    [][ (/\ nreq' = nreq + 1
         /\ answer'.op = "set_permission"
         /\ answer'.code = REGISTRATION_SUCCESSFUL)
        => LET target == answer'.data.user_id
           IN  /\ users'[target].exists
               /\ users'[target].public_ssh_key = users[target].public_ssh_key
               /\ target # answer'.user
                      => (/\ users'[target].username = users[target].username
                          /\ users'[target].full_name = users[target].full_name)
               /\ \A v \in UserIds \ {target, answer'.user} : users'[v] = users[v] ]_vars

\* C37: whenever no request is in flight, every live placement has a Job row
\* whose end_time is null
C37_PlacementHasRow ==
    \A sv \in services : JobRow(jobs, sv.id).exists /\ Active(JobRow(jobs, sv.id))

\* C38: when a set_credential request has finished, whatever its outcome, the key
\* on the acting user's row and the config stored for that user in the engine
\* are both absent or both present, and when present they hold the same key
C38_KeyAndConfigInStep ==
    [][ (nreq' = nreq + 1 /\ answer'.op = "set_ssh_key" /\ users'[answer'.user].exists)
        => users'[answer'.user].public_ssh_key = configs'[answer'.user] ]_vars

\* C39: a register_user that is answered with an error (PermissionDenied,
\* AlreadyRegistered, or an error raised while the per-user storage is prepared)
\* leaves the set of registered users as it was
C39_RegisterErrorNoUser ==
    [][ (/\ nreq' = nreq + 1
         /\ answer'.op = "register_user"
         /\ answer'.code # REGISTRATION_SUCCESSFUL)
        => \A v \in UserIds : users'[v].exists = users[v].exists ]_vars

\* C40: starting the manager again on the store it left changes nothing: the
\* owner has level OWNER, and every user row (the owner's key, username and
\* full_name included), every worker, GPU and Job row is as it was
C40_InitIdempotent ==
    [][ restart
        => (/\ users'[OwnerId].exists
            /\ users'[OwnerId].permission_level = OWNER
            /\ users' = users
            /\ UNCHANGED <<workers, gpus, jobs>>) ]_vars

====
